---- MODULE Spec2Model ----
(***************************************************************************)
(* Model of celestixlcd.py: the CelestixLCD session over a USB HID         *)
(* transport (the `hid` package) and the /usr/bin/beep collaborator.       *)
(*                                                                         *)
(* Bytes are naturals 0..255, a bytes object is a sequence of them, a      *)
(* Python str is a sequence of code points.  Every method of the class is  *)
(* an operator that returns what the call did (its result, the reports it  *)
(* handed to the transport, the beeps it spawned, what it printed); the    *)
(* actions apply these operators to inputs drawn from small sets and keep  *)
(* the last call in `last`.  The transport and the beep program are the    *)
(* environment: what they answer is an input of the call.                  *)
(***************************************************************************)
EXTENDS Integers, Sequences, FiniteSets, TLC

VARIABLES
    session,          \* "none" | "failed" | "live" | "finalized": the CelestixLCD object
    scope,            \* "outside" | "inside" | "left": the with-statement around it
    handle,           \* "none" | "open" | "released": the hid.Device behind self._device
    closeCalls,       \* number of CelestixLCD.close() calls made so far
    transportCloses,  \* number of self._device.close() invocations made so far
    last              \* the last call: its name, its arguments, its outcome

vars == <<session, scope, handle, closeCalls, transportCloses, last>>

lifecycle == <<session, scope, handle, closeCalls, transportCloses>>

-----------------------------------------------------------------------------
(* Bounds of the model *)

MaxShort == 1      \* short texts and bitmaps have 0..MaxShort elements
MaxOver == 1       \* long ones have up to MaxOver elements more than the limit
MaxPattern == 1    \* contents are drawn from patterns 0..MaxPattern
MaxCloses == 2     \* explicit close() calls per session

-----------------------------------------------------------------------------
(* Program constants *)

lcd_report == 2
cmd_text == 0
cmd_clear == 1
cmd_char == 3
LineLen == 40
MaxRows == 48
KeyReadSize == 6
RawReadSize == 63

Min(a, b) == IF a < b THEN a ELSE b

Zeros(n) == [i \in 1..n |-> 0]

Spaces(n) == [i \in 1..n |-> 32]

-----------------------------------------------------------------------------
(* Inputs *)

\* 'x', 'H', 'e acute' (Latin-1) and the euro sign (outside Latin-1)
Alphabet == <<120, 72, 233, 8364>>

TextOf(n, p) == [i \in 1..n |-> Alphabet[((i * p) % Len(Alphabet)) + 1]]

TextLens == (0..MaxShort) \cup ((LineLen - 1)..(LineLen + MaxOver))

Texts == {TextOf(n, p) : n \in TextLens, p \in 0..MaxPattern}

LineArgs == -1..2

CursorArgs == {-1, 0, 5, 39, 40}

LocationArgs == {-1, 0, 5, 7, 8}

\* pixel rows; 256 does not fit one byte
RowAlphabet == <<31, 4, 14, 256>>

BitmapOf(n, p) == [i \in 1..n |-> RowAlphabet[((i * p) % Len(RowAlphabet)) + 1]]

BitmapLens == (0..MaxShort) \cup ((MaxRows - 1)..(MaxRows + MaxOver))

Bitmaps == {BitmapOf(n, p) : n \in BitmapLens, p \in 0..MaxPattern}

\* reports the knob channel can deliver: bare 3-byte key reports, the same
\* padded to 6 bytes, and reports that are no key (such as a key release)
KeyCodes == {58, 59, 60, 61}

Reports ==
    {<<1, 2, k>> : k \in KeyCodes}
        \cup {<<1, 2, k>> \o Zeros(3) : k \in KeyCodes}
        \cup {<<1, 0, 0>>, <<1, 0, 58>>, <<2, 2, 58>>}

RawData == {<<>>, <<255>>, <<2, 1, 0, 0, 0, 0, 0, 0>>}

\* what hid.Device.read answers: a report, nothing within the timeout
\* (an empty bytes object), or an error; a released handle only errors,
\* and without a timeout the read blocks until there is a report
ReadAnswers(h, timed) ==
    IF h # "open" THEN {[kind |-> "error", bytes |-> <<>>]}
    ELSE {[kind |-> "data", bytes |-> r] : r \in Reports}
            \cup {[kind |-> "error", bytes |-> <<>>]}
            \cup (IF timed THEN {[kind |-> "timeout", bytes |-> <<>>]} ELSE {})

\* what hid.Device.write answers
WriteAnswers(h) == IF h # "open" THEN {"error"} ELSE {"ok", "error"}

\* what subprocess.call of /usr/bin/beep does: exit 0, exit non-zero,
\* or fail to start (OSError)
BeepAnswers == {"ok", "nonzero", "raises"}

-----------------------------------------------------------------------------
(* Outcome of one call *)

Outcome(result, value, wrote, reads, beeps, printed) ==
    [result |-> result, value |-> value, wrote |-> wrote, reads |-> reads,
     beeps |-> beeps, printed |-> printed]

Raised(result) == Outcome(result, <<>>, <<>>, <<>>, <<>>, <<>>)

Failures == {"AssertionError", "OverflowError", "HIDException", "OSError",
             "RuntimeError"}

-----------------------------------------------------------------------------
(* Conversions *)

\* str[:n]
Prefix(s, n) == SubSeq(s, 1, Min(Len(s), n))

\* str.encode('iso-8859-1', 'replace'): one byte per character, '?' for a
\* character outside Latin-1
Latin1Replace(s) == [i \in 1..Len(s) |-> IF s[i] <= 255 THEN s[i] ELSE 63]

\* int.to_bytes(1, 'big') is defined for 0..255 and raises OverflowError otherwise
FitsByte(x) == x >= 0 /\ x <= 255

\* bytes.hex(): two hexadecimal digits per byte, high digit first
Hex(bs) == [i \in 1..(2 * Len(bs)) |->
               IF i % 2 = 1 THEN bs[(i + 1) \div 2] \div 16 ELSE bs[i \div 2] % 16]

\* self._device.write(payload): the payload is handed to the transport,
\* which accepts it or raises
DeviceWrite(payload, w) ==
    Outcome(IF w = "ok" THEN "None" ELSE "HIDException", <<>>, <<payload>>,
            <<>>, <<>>, <<>>)

-----------------------------------------------------------------------------
(* CelestixLCD.read *)

\* `if beep: subprocess.call([...])` followed by `return key`
BeepAndReturn(key, beep, tone, b) ==
    IF beep
    THEN Outcome(IF b = "raises" THEN "OSError" ELSE key, <<>>, <<>>,
                 <<KeyReadSize>>, <<tone>>, <<>>)
    ELSE Outcome(key, <<>>, <<>>, <<KeyReadSize>>, <<>>, <<>>)

read_swapped(t, beep, b) ==
    IF t.kind = "error"
    THEN Outcome("HIDException", <<>>, <<>>, <<KeyReadSize>>, <<>>, <<>>)
    ELSE LET keycode == t.bytes
         IN  IF keycode = <<1, 2, 58>>
             THEN BeepAndReturn("select", beep, <<1000, 20>>, b)
             ELSE IF keycode = <<1, 2, 59>>
             THEN BeepAndReturn("left", beep, <<500, 10>>, b)
             ELSE IF keycode = <<1, 2, 60>>
             THEN BeepAndReturn("right", beep, <<500, 10>>, b)
             ELSE Outcome("None", <<>>, <<>>, <<KeyReadSize>>, <<>>, <<keycode>>)

read_timeout_raises(t, beep, b) ==
    IF t.kind = "error" \/ t.bytes = <<>>
    THEN Outcome("HIDException", <<>>, <<>>, <<KeyReadSize>>, <<>>, <<>>)
    ELSE LET keycode == t.bytes
         IN  IF keycode = <<1, 2, 58>>
             THEN BeepAndReturn("select", beep, <<1000, 20>>, b)
             ELSE IF keycode = <<1, 2, 59>>
             THEN BeepAndReturn("right", beep, <<500, 10>>, b)
             ELSE IF keycode = <<1, 2, 60>>
             THEN BeepAndReturn("left", beep, <<500, 10>>, b)
             ELSE Outcome("None", <<>>, <<>>, <<KeyReadSize>>, <<>>, <<keycode>>)

\* t is the transport's answer to self._device.read(6, timeout), b the beep
\* program's answer should it be called
read(t, beep, b) ==
    IF t.kind = "error"
    THEN Outcome("HIDException", <<>>, <<>>, <<KeyReadSize>>, <<>>, <<>>)
    ELSE LET keycode == t.bytes
         IN  IF keycode = <<1, 2, 58>>
             THEN BeepAndReturn("select", beep, <<1000, 20>>, b)
             ELSE IF keycode = <<1, 2, 59>>
             THEN BeepAndReturn("right", beep, <<500, 10>>, b)
             ELSE IF keycode = <<1, 2, 60>>
             THEN BeepAndReturn("left", beep, <<500, 10>>, b)
             ELSE Outcome("None", <<>>, <<>>, <<KeyReadSize>>, <<>>, <<keycode>>)

(* CelestixLCD.readRaw *)
readRaw(t) ==
    IF t.kind = "error"
    THEN Outcome("HIDException", <<>>, <<>>, <<RawReadSize>>, <<>>, <<>>)
    ELSE Outcome("str", Hex(t.bytes), <<>>, <<RawReadSize>>, <<>>, <<>>)

(* CelestixLCD.writeRaw *)
writeRaw(data, w) == DeviceWrite(data, w)

(* CelestixLCD.clear *)
clear(w) == DeviceWrite(<<lcd_report, cmd_clear>> \o Zeros(6), w)

-----------------------------------------------------------------------------
(* CelestixLCD.write_line *)

write_line_nopad(string, line, w) ==
    LET message == Prefix(string, LineLen)
    IN  IF ~(0 <= line /\ line <= 1)
        THEN Raised("AssertionError")
        ELSE DeviceWrite(<<lcd_report, cmd_text, 0, line, LineLen>> \o Zeros(3)
                             \o Latin1Replace(message), w)

write_line_notrunc(string, line, w) ==
    LET message == string
    IN  IF ~(0 <= line /\ line <= 1)
        THEN Raised("AssertionError")
        ELSE DeviceWrite(<<lcd_report, cmd_text, 0, line, LineLen>> \o Zeros(3)
                             \o Latin1Replace(message)
                             \o Spaces(IF Len(message) < LineLen
                                       THEN LineLen - Len(message) ELSE 0), w)

write_line(string, line, w) ==
    LET message == Prefix(string, LineLen)
        cursor_pos == 0
        length == LineLen
        endpad == Spaces(LineLen - Len(message))
    IN  IF ~(0 <= line /\ line <= 1)
        THEN Raised("AssertionError")
        ELSE DeviceWrite(<<lcd_report, cmd_text, cursor_pos, line, length>>
                             \o Zeros(3) \o Latin1Replace(message) \o endpad, w)

(* CelestixLCD.write_string *)

write_string_clamped(string, line, cursor, w) ==
    LET message == Prefix(string, LineLen)
        length == Len(message)
        c == IF cursor < 0 THEN 0 ELSE Min(cursor, LineLen - 1)
    IN  IF ~(0 <= line /\ line <= 1)
        THEN Raised("AssertionError")
        ELSE DeviceWrite(<<lcd_report, cmd_text, c, line, length>>
                             \o Zeros(3) \o Latin1Replace(message), w)

write_string(string, line, cursor, w) ==
    LET message == Prefix(string, LineLen)
        length == Len(message)
    IN  IF ~(0 <= line /\ line <= 1)
        THEN Raised("AssertionError")
        ELSE IF ~(0 <= cursor /\ cursor <= LineLen - 1)
        THEN Raised("AssertionError")
        ELSE DeviceWrite(<<lcd_report, cmd_text, cursor, line, length>>
                             \o Zeros(3) \o Latin1Replace(message), w)

(* CelestixLCD.create_char *)
create_char(location, bitmap, w) ==
    IF ~(0 <= location /\ location <= 7)
    THEN Raised("AssertionError")
    ELSE IF ~(1 <= Len(bitmap) /\ Len(bitmap) <= MaxRows)
    THEN Raised("AssertionError")
    ELSE IF \E i \in 1..Len(bitmap) : ~FitsByte(bitmap[i])
    THEN Raised("OverflowError")
    ELSE LET startpos == location * 8
             charData == bitmap
             length == Len(charData)
         IN  DeviceWrite(<<lcd_report, cmd_char, startpos, 0, length>>
                             \o Zeros(3) \o charData, w)

-----------------------------------------------------------------------------
(* The session *)

Returned == Outcome("None", <<>>, <<>>, <<>>, <<>>, <<>>)

Call(name, args, out) == [name |-> name, args |-> args, out |-> out]

Init ==
    /\ session = "none"
    /\ scope = "outside"
    /\ handle = "none"
    /\ closeCalls = 0
    /\ transportCloses = 0
    /\ last = Call("none", <<>>, Returned)

\* CelestixLCD.__init__: hid.enumerate found a device or not, hid.Device
\* opened it or raised
init(found, opened) ==
    IF ~found THEN Raised("RuntimeError")
    ELSE IF ~opened THEN Raised("HIDException")
    ELSE Returned

New ==
    /\ session = "none"
    /\ \E found \in BOOLEAN, opened \in BOOLEAN :
          LET out == init(found, opened)
          IN  /\ last' = Call("__init__", [found |-> found, opened |-> opened], out)
              /\ session' = IF out.result = "None" THEN "live" ELSE "failed"
              /\ handle' = IF out.result = "None" THEN "open" ELSE "none"
    /\ UNCHANGED <<scope, closeCalls, transportCloses>>

\* CelestixLCD.close: `if self._device: self._device.close()`.  self._device
\* is the hid.Device object, never reassigned: it is truthy before and after
\* it has been closed, so every call reaches the transport's close.
close ==
    /\ closeCalls' = closeCalls + 1
    /\ transportCloses' = transportCloses + 1
    /\ handle' = "released"

Close ==
    /\ session = "live"
    /\ closeCalls < MaxCloses
    /\ close
    /\ last' = Call("close", <<>>, Returned)
    /\ UNCHANGED <<session, scope>>

\* CelestixLCD.__enter__
Enter ==
    /\ session = "live"
    /\ scope = "outside"
    /\ scope' = "inside"
    /\ last' = Call("__enter__", <<>>, Returned)
    /\ UNCHANGED <<session, handle, closeCalls, transportCloses>>

\* CelestixLCD.__exit__: the block ended normally or by an exception of the
\* last call; either way self.close() is called
Exit ==
    /\ session = "live"
    /\ scope = "inside"
    /\ \E exc \in BOOLEAN :
          /\ exc => last.out.result \in Failures
          /\ last' = Call("__exit__", [exc |-> exc], Returned)
    /\ close
    /\ scope' = "left"
    /\ UNCHANGED session

\* CelestixLCD.__del__: the body is the expression `self.close`, which
\* looks the method up and does not call it
Del ==
    /\ session \in {"live", "failed"}
    /\ scope # "inside"
    /\ session' = "finalized"
    /\ last' = Call("__del__", <<>>, Returned)
    /\ UNCHANGED <<scope, handle, closeCalls, transportCloses>>

Read ==
    /\ session = "live"
    /\ \E timed \in BOOLEAN, beep \in BOOLEAN, b \in BeepAnswers :
       \E t \in ReadAnswers(handle, timed) :
          last' = Call("read", [timed |-> timed, beep |-> beep, t |-> t, b |-> b],
                       read(t, beep, b))
    /\ UNCHANGED lifecycle

ReadRaw ==
    /\ session = "live"
    /\ \E timed \in BOOLEAN :
       \E t \in ReadAnswers(handle, timed) :
          last' = Call("readRaw", [timed |-> timed, t |-> t], readRaw(t))
    /\ UNCHANGED lifecycle

WriteRaw ==
    /\ session = "live"
    /\ \E data \in RawData, w \in WriteAnswers(handle) :
          last' = Call("writeRaw", [data |-> data, w |-> w], writeRaw(data, w))
    /\ UNCHANGED lifecycle

Clear ==
    /\ session = "live"
    /\ \E w \in WriteAnswers(handle) :
          last' = Call("clear", [w |-> w], clear(w))
    /\ UNCHANGED lifecycle

WriteLine ==
    /\ session = "live"
    /\ \E string \in Texts, line \in LineArgs, w \in WriteAnswers(handle) :
          last' = Call("write_line", [string |-> string, line |-> line, w |-> w],
                       write_line(string, line, w))
    /\ UNCHANGED lifecycle

WriteString ==
    /\ session = "live"
    /\ \E string \in Texts, line \in LineArgs, cursor \in CursorArgs,
          w \in WriteAnswers(handle) :
          last' = Call("write_string",
                       [string |-> string, line |-> line, cursor |-> cursor, w |-> w],
                       write_string(string, line, cursor, w))
    /\ UNCHANGED lifecycle

CreateChar ==
    /\ session = "live"
    /\ \E location \in LocationArgs, bitmap \in Bitmaps, w \in WriteAnswers(handle) :
          last' = Call("create_char",
                       [location |-> location, bitmap |-> bitmap, w |-> w],
                       create_char(location, bitmap, w))
    /\ UNCHANGED lifecycle

Next ==
    \/ New
    \/ Close
    \/ Enter
    \/ Exit
    \/ Del
    \/ Read
    \/ ReadRaw
    \/ WriteRaw
    \/ Clear
    \/ WriteLine
    \/ WriteString
    \/ CreateChar

Spec == Init /\ [][Next]_vars

-----------------------------------------------------------------------------
(* Properties *)

IoCalls == {"read", "readRaw", "writeRaw", "clear", "write_line",
            "write_string", "create_char"}

KeyName(k) == IF k = 58 THEN "select" ELSE IF k = 59 THEN "right" ELSE "left"

\* a report that starts with the three bytes of one of the three keys
StartsWithKey(bs) ==
    /\ Len(bs) >= 3
    /\ SubSeq(bs, 1, 2) = <<1, 2>>
    /\ bs[3] \in {58, 59, 60}

\* C1 (as claimed): once close() has been called, however often and whether
\* explicitly or by the with-statement's exit, no close raised, the session
\* is closed and the transport's close has been invoked exactly once.
C1_CloseReleasesOnce ==
    closeCalls >= 1 =>
        /\ handle = "released"
        /\ transportCloses = 1
        /\ last.name \in {"close", "__exit__"} => last.out.result \notin Failures

\* C2 (as claimed): once close() has been performed, every later read,
\* readRaw, writeRaw, clear, write_line, write_string and create_char fails,
\* makes no transport read or write, and the handle is never open again.
C2_ClosedIsTerminal ==
    closeCalls >= 1 =>
        /\ handle # "open"
        /\ last.name \in IoCalls =>
              /\ last.out.result \in Failures
              /\ last.out.reads = <<>>
              /\ last.out.wrote = <<>>

\* C3 (as claimed): a session that was opened has had the transport's close
\* invoked once the with-statement has been left (normally or by an error)
\* and once the abandoned session has been finalized.
C3_ReleasedOnEveryExit ==
    /\ scope = "left" => transportCloses >= 1
    /\ (session = "finalized" /\ handle # "none") => transportCloses >= 1

\* C4 (as claimed): for a report that is none of the three key patterns,
\* read() returns an Unrecognized outcome that carries the raw bytes.
C4_UnrecognizedCarriesBytes ==
    (/\ last.name = "read"
     /\ last.args.t.kind = "data"
     /\ ~StartsWithKey(last.args.t.bytes)) =>
        /\ last.out.result = "Unrecognized"
        /\ last.out.value = last.args.t.bytes

\* C5 (as claimed): for a 6-byte report [0x01, 0x02, keycode] followed by
\* padding, read() returns 'select' for 0x3A, 'right' for 0x3B, 'left' for 0x3C.
C5_PaddedKeyReportDecoded ==
    (/\ last.name = "read"
     /\ last.args.t.kind = "data"
     /\ Len(last.args.t.bytes) = 6
     /\ StartsWithKey(last.args.t.bytes)) =>
        last.out.result = KeyName(last.args.t.bytes[3])

\* C5 (amended): for a report that is exactly the three bytes
\* [0x01, 0x02, keycode], read() returns 'select' for 0x3A, 'right' for 0x3B
\* and 'left' for 0x3C (the one call that does not is the call with beep
\* whose beep program could not be started: it raises); the same bytes
\* followed by padding are not recognized and read() returns None.
C5_BareKeyReportDecoded ==
    (last.name = "read" /\ last.args.t.kind = "data"
        /\ StartsWithKey(last.args.t.bytes)) =>
        IF Len(last.args.t.bytes) = 3
        THEN IF last.args.beep /\ last.args.b = "raises"
             THEN last.out.result = "OSError"
             ELSE last.out.result = KeyName(last.args.t.bytes[3])
        ELSE last.out.result = "None"

C5_Witness ==
    /\ last.name = "read"
    /\ last.args.t.bytes = <<1, 2, 59>>
    /\ last.out.result = "right"

\* the precondition of a write_line, write_string or create_char call fails
BadArguments(c) ==
    \/ /\ c.name \in {"write_line", "write_string"}
       /\ c.args.line \notin {0, 1}
    \/ /\ c.name = "write_string"
       /\ c.args.cursor \notin 0..39
    \/ /\ c.name = "create_char"
       /\ c.args.location \notin 0..7
    \/ /\ c.name = "create_char"
       /\ Len(c.args.bitmap) \notin 1..48

\* C6: a write_line, write_string or create_char call with a line outside
\* {0,1}, a cursor outside 0..39, a location outside 0..7 or a bitmap of
\* length outside 1..48 fails with the precondition error (AssertionError),
\* hands nothing to the transport and leaves the session as it was.
C6_BadArgumentsRejected ==
    [][BadArguments(last') =>
          /\ last'.out.result = "AssertionError"
          /\ last'.out.wrote = <<>>
          /\ UNCHANGED lifecycle]_vars

C6_Witness ==
    /\ last.name = "write_string"
    /\ last.args.line = 1
    /\ last.args.cursor = 40
    /\ last.out.result = "AssertionError"
    /\ last.out.wrote = <<>>

ReportKind(name) ==
    IF name \in {"write_line", "write_string"} THEN "text"
    ELSE IF name = "create_char" THEN "char"
    ELSE IF name = "clear" THEN "clear"
    ELSE "other"

WroteReport(c) == ReportKind(c.name) # "other" /\ c.out.wrote # <<>>

\* C7 (as claimed): any two reports of the same command kind (text, char
\* memory, clear) have the same total length.
C7_SameLengthPerKind ==
    [][(/\ WroteReport(last)
        /\ WroteReport(last')
        /\ ReportKind(last.name) = ReportKind(last'.name)) =>
          Len(last.out.wrote[1]) = Len(last'.out.wrote[1])]_vars

\* C7 (amended): every write_line report has the same total length, 48, and
\* every clear report has length 8; write_string and create_char reports
\* are not padded: their length is 8 plus the number of text bytes (at most
\* 40) or bitmap rows.
C7_LengthPerOperation ==
    WroteReport(last) =>
        Len(last.out.wrote[1]) =
            IF last.name = "write_line" THEN 48
            ELSE IF last.name = "clear" THEN 8
            ELSE IF last.name = "write_string"
            THEN 8 + (IF Len(last.args.string) < 40 THEN Len(last.args.string) ELSE 40)
            ELSE 8 + Len(last.args.bitmap)

C7_Witness ==
    /\ last.name = "write_string"
    /\ Len(last.args.string) = 1
    /\ WroteReport(last)
    /\ Len(last.out.wrote[1]) = 9

\* C8: for line 0 or 1 and any text, write_line hands the transport exactly
\* one report of 48 bytes: [0x02, 0x00, 0, line, 40, 0, 0, 0], then the first
\* 40 characters of the text, one byte each (its Latin-1 byte, '?' for a
\* character that has none), then spaces up to 40.
C8_WriteLineReport ==
    (last.name = "write_line" /\ last.args.line \in {0, 1}) =>
        /\ Len(last.out.wrote) = 1
        /\ LET report == last.out.wrote[1]
               text == last.args.string
           IN  /\ Len(report) = 48
               /\ SubSeq(report, 1, 8) = <<2, 0, 0, last.args.line, 40, 0, 0, 0>>
               /\ \A i \in 1..40 :
                     report[8 + i] =
                        IF i > Len(text) THEN 32
                        ELSE IF text[i] <= 255 THEN text[i] ELSE 63

C8_Witness ==
    /\ last.name = "write_line"
    /\ last.args.line = 1
    /\ Len(last.args.string) = 41
    /\ Len(last.out.wrote) = 1
    /\ last.out.wrote[1][48] = last.args.string[40]

\* C9 (as claimed): read() calls the beep program only when beep is
\* requested and the report is a recognized key, and when the beep fails
\* read() still returns the key's name.
C9_BeepNeverFailsRead ==
    last.name = "read" =>
        /\ last.out.beeps # <<>> =>
              /\ last.args.beep
              /\ last.args.t.bytes \in {<<1, 2, 58>>, <<1, 2, 59>>, <<1, 2, 60>>}
        /\ (last.out.beeps # <<>> /\ last.args.b # "ok") =>
              last.out.result = KeyName(last.args.t.bytes[3])

\* C10: a read() whose timeout expires without a report returns None, not an
\* error, and a transport failure raises: the two outcomes differ.
C10_TimeoutIsNoData ==
    last.name = "read" =>
        /\ last.args.t.kind = "timeout" =>
              /\ last.out.result = "None"
              /\ last.out.result \notin Failures
        /\ last.args.t.kind = "error" => last.out.result = "HIDException"

C10_Witness ==
    /\ last.name = "read"
    /\ last.args.timed
    /\ last.args.t.kind = "timeout"
    /\ last.out.result = "None"

====
